---- MODULE Spec2Model ----
(***************************************************************************)
(* Session discovery, sticky routing and the command channel of the        *)
(* ClaudeR MCP bridge (clauder-mcp/src/clauder_mcp/server.py).             *)
(*                                                                         *)
(* The discovery directory ~/.claude_r_sessions is a function from file    *)
(* slots (in os.listdir order) to file contents; the process table gives   *)
(* what os.kill(pid, 0) meets for each pid.  One bridge instance holds the *)
(* binding _target_session.  Every bridge operation is one action; the     *)
(* record `last` keeps what the most recent operation saw and returned.    *)
(***************************************************************************)
EXTENDS Integers, Sequences, FiniteSets, TLC

\* ---------------------------------------------------------------- bounds
MaxFiles == 2
MaxJobs == 1

Files == 1..MaxFiles
PidOf(f) == 100 + f
Pids == {PidOf(f) : f \in Files}

Names == {"default", "alpha", "beta"}
Ports == {8787, 9000}

\* The bridge instances that share the discovery directory.
Bridges == {"b1", "b2"}

\* Python's None for _target_session
None == "<None>"

\* ------------------------------------------------------- file contents
Absent == [json |-> "absent"]
InvalidJson == [json |-> "invalid"]
ArrayJson == [json |-> "array"]

Descriptor(n, p, q) == [json |-> "object", session_name |-> n, port |-> p, pid |-> q]

\* dict membership: "k in d"
Has(d, k) == k \in DOMAIN d

\* A descriptor as spec.md section 3 defines it: all of session_name, port, pid.
Complete(c) ==
    /\ c.json = "object"
    /\ Has(c, "session_name") /\ Has(c, "port") /\ Has(c, "pid")

\* Parseable objects that lack one key, and files that are not a JSON object.
Incomplete(f) ==
    {[json |-> "object", port |-> 9000, pid |-> PidOf(f)],
     [json |-> "object", session_name |-> "alpha", pid |-> PidOf(f)],
     [json |-> "object", session_name |-> "beta", port |-> 9000]}

Garbage == {InvalidJson, ArrayJson}

\* ------------------------------------------------------- process probe
\* os.kill(pid, 0): "ok", or the errno it raises.  pid -1 addresses every
\* process the caller may signal, so the probe succeeds.
Kill(pid, pr) ==
    IF pid = -1 THEN "ok"
    ELSE IF pid \notin DOMAIN pr THEN "ESRCH"
    ELSE IF pr[pid] = "own" THEN "ok"
    ELSE IF pr[pid] = "other" THEN "EPERM"
    ELSE "ESRCH"

\* Faulty variant, for comparison: the probe's failure is not taken for death.
PidAliveNoProbe(pid, pr) == TRUE

\* _pid_alive: PermissionError and ProcessLookupError are both OSError.
PidAlive(pid, pr) == Kill(pid, pr) = "ok"

\* The process named by the descriptor exists (whoever owns it).
ProcessExists(pid, pr) == pid \in DOMAIN pr /\ pr[pid] # "none"

\* ------------------------------------------------------------ discover
\* info.get("pid", -1)
GetPid(info) == IF Has(info, "pid") THEN info.pid ELSE -1

\* json.load(fh) plus the liveness test of one file: TRUE when the file is
\* appended to sessions, FALSE when it is removed (dead pid, or any exception).
Keeps(c, pr) ==
    /\ c.json = "object"
    /\ PidAlive(GetPid(c), pr)

\* Faulty variant, for comparison: the removal of line 57 is reached for every file.
PruneEverything(d, pr) == [f \in DOMAIN d |-> Absent]

\* The directory after one discover_sessions() call.
Prune(d, pr) ==
    [f \in DOMAIN d |-> IF d[f] = Absent \/ Keeps(d[f], pr) THEN d[f] ELSE Absent]

\* json.load(fh) of a JSON object: the dict of its keys.
Parse(c) == [k \in (DOMAIN c) \ {"json"} |-> c[k]]

RECURSIVE Collect(_, _, _)
Collect(f, d, pr) ==
    IF f > MaxFiles THEN <<>>
    ELSE IF d[f] # Absent /\ Keeps(d[f], pr)
         THEN <<Parse(d[f])>> \o Collect(f + 1, d, pr)
         ELSE Collect(f + 1, d, pr)

\* discover_sessions(): the returned list, in listing order.
discover_sessions(d, pr) == Collect(1, d, pr)

\* Lines 47-48: without the directory the call returns [] before it lists
\* anything; isd is os.path.isdir(SESSIONS_DIR).
Listed(isd, d) == IF isd THEN d ELSE [f \in DOMAIN d |-> Absent]

\* ------------------------------------------------------------- resolve
\* R_ADDIN_URL and f"http://127.0.0.1:{port}"
Url(port) == [host |-> "127.0.0.1", port |-> port]
FallbackPort == 8787
R_ADDIN_URL == Url(FallbackPort)
NoUrl == [host |-> "", port |-> 0]

Indices(s) == 1..Len(s)

\* s.get("port", 99999)
MissingPortKey == 99999
PortKey(s) == IF Has(s, "port") THEN s.port ELSE MissingPortKey

First(S) == CHOOSE i \in S : \A j \in S : i <= j

\* sessions.sort(key=...); sessions[0]: the first of the entries with the least key.
LowestPortIndex(sessions) ==
    First({i \in Indices(sessions) :
             \A j \in Indices(sessions) : PortKey(sessions[i]) <= PortKey(sessions[j])})

\* next((s for s in sessions if s.get("session_name") == "default"), None)
DefaultIndices(sessions) ==
    {i \in Indices(sessions) :
        Has(sessions[i], "session_name") /\ sessions[i].session_name = "default"}

\* Faulty variant, for comparison: the default name is not preferred.
PickIndexNoDefault(sessions) == LowestPortIndex(sessions)

\* The entry auto-pick selects from a non-empty list.
PickIndex(sessions) ==
    IF DefaultIndices(sessions) # {} THEN First(DefaultIndices(sessions))
    ELSE LowestPortIndex(sessions)

\* Faulty variant, for comparison: the binding is set from the first listed entry, not from the pick.
AutoPickBindsFirst(sessions, tgt) ==
    LET pick == sessions[PickIndex(sessions)] IN
    IF ~Has(pick, "session_name") \/ ~Has(sessions[1], "session_name")
    THEN [url |-> NoUrl, raised |-> TRUE, target |-> tgt]
    ELSE IF ~Has(pick, "port")
    THEN [url |-> NoUrl, raised |-> TRUE, target |-> sessions[1].session_name]
    ELSE [url |-> Url(pick.port), raised |-> FALSE, target |-> sessions[1].session_name]

\* Auto-pick, lines 80-86: pick["session_name"] is read before pick['port'];
\* a missing key raises KeyError at that point.
AutoPick(sessions, tgt) ==
    LET pick == sessions[PickIndex(sessions)] IN
    IF ~Has(pick, "session_name")
    THEN [url |-> NoUrl, raised |-> TRUE, target |-> tgt]
    ELSE IF ~Has(pick, "port")
    THEN [url |-> NoUrl, raised |-> TRUE, target |-> pick.session_name]
    ELSE [url |-> Url(pick.port), raised |-> FALSE, target |-> pick.session_name]

\* The loop of lines 76-78 stops at the first entry that lacks session_name
\* (KeyError) or carries the bound name.
StopIndices(sessions, tgt) ==
    {i \in Indices(sessions) :
        ~Has(sessions[i], "session_name") \/ sessions[i].session_name = tgt}

\* Faulty variant, for comparison: a vanished bound session is not replaced; the fallback is returned.
RouteNoRepick(sessions, tgt) ==
    IF sessions = <<>> THEN [url |-> R_ADDIN_URL, raised |-> FALSE, target |-> tgt]
    ELSE IF tgt # None /\ StopIndices(sessions, tgt) # {}
    THEN LET s == sessions[First(StopIndices(sessions, tgt))] IN
         IF ~Has(s, "session_name") \/ ~Has(s, "port")
         THEN [url |-> NoUrl, raised |-> TRUE, target |-> tgt]
         ELSE [url |-> Url(s.port), raised |-> FALSE, target |-> tgt]
    ELSE IF tgt # None THEN [url |-> R_ADDIN_URL, raised |-> FALSE, target |-> None]
    ELSE AutoPick(sessions, None)

\* Faulty variant, for comparison: the binding is ignored and every call picks afresh.
RouteNotSticky(sessions, tgt) ==
    IF sessions = <<>> THEN [url |-> R_ADDIN_URL, raised |-> FALSE, target |-> tgt]
    ELSE AutoPick(sessions, None)

\* Faulty variant, for comparison: a session named "default" is preferred to the bound one.
RouteDefaultFirst(sessions, tgt) ==
    IF sessions = <<>> THEN [url |-> R_ADDIN_URL, raised |-> FALSE, target |-> tgt]
    ELSE IF DefaultIndices(sessions) # {} THEN AutoPick(sessions, None)
    ELSE IF tgt # None /\ StopIndices(sessions, tgt) # {}
    THEN LET s == sessions[First(StopIndices(sessions, tgt))] IN
         IF ~Has(s, "session_name") \/ ~Has(s, "port")
         THEN [url |-> NoUrl, raised |-> TRUE, target |-> tgt]
         ELSE [url |-> Url(s.port), raised |-> FALSE, target |-> tgt]
    ELSE AutoPick(sessions, None)

\* Faulty variant, for comparison: an empty discovery is not answered with the fallback.
RouteNoFallback(sessions, tgt) ==
    IF sessions = <<>> THEN [url |-> NoUrl, raised |-> TRUE, target |-> tgt]
    ELSE IF tgt # None /\ StopIndices(sessions, tgt) # {}
    THEN LET s == sessions[First(StopIndices(sessions, tgt))] IN
         IF ~Has(s, "session_name") \/ ~Has(s, "port")
         THEN [url |-> NoUrl, raised |-> TRUE, target |-> tgt]
         ELSE [url |-> Url(s.port), raised |-> FALSE, target |-> tgt]
    ELSE AutoPick(sessions, None)

\* get_r_addin_url() after discovery: the url returned (or the exception)
\* and the binding it leaves.
Route(sessions, tgt) ==
    IF sessions = <<>> THEN [url |-> R_ADDIN_URL, raised |-> FALSE, target |-> tgt]
    ELSE IF tgt # None /\ StopIndices(sessions, tgt) # {}
    THEN LET s == sessions[First(StopIndices(sessions, tgt))] IN
         IF ~Has(s, "session_name") \/ ~Has(s, "port")
         THEN [url |-> NoUrl, raised |-> TRUE, target |-> tgt]
         ELSE [url |-> Url(s.port), raised |-> FALSE, target |-> tgt]
    ELSE AutoPick(sessions, None)

\* ------------------------------------------------------ command channel
\* What the one HTTP exchange meets: no listener, no answer in time, or a
\* response with a status and a body.
OkBody == [json |-> "object", success |-> TRUE, output |-> "[1] 42"]
FailBody == [json |-> "object", success |-> FALSE, error |-> "object 'x' not found"]
ArrayBody == [json |-> "array"]
InvalidBody == [json |-> "invalid"]

Outcomes ==
    {[kind |-> "refused", status |-> 0, body |-> InvalidBody],
     [kind |-> "timeout", status |-> 0, body |-> InvalidBody],
     [kind |-> "response", status |-> 200, body |-> OkBody],
     [kind |-> "response", status |-> 200, body |-> FailBody],
     [kind |-> "response", status |-> 200, body |-> ArrayBody],
     [kind |-> "response", status |-> 200, body |-> InvalidBody],
     [kind |-> "response", status |-> 500, body |-> FailBody]}

\* The environment's answers to the first attempt and to a second one, were
\* one made.
SecondOutcomes == {[kind |-> "response", status |-> 200, body |-> OkBody]}

Senders == {"execute_r_code_via_addin", "post_to_r_addin"}

NoSessionsError ==
    [success |-> FALSE,
     error |-> "No R sessions found. Start the ClaudeR addin in RStudio first."]

\* The exception the exchange raises, "" when response.json() returns.
\* httpx.ConnectError, httpx.TimeoutException and httpx.HTTPStatusError are
\* httpx.HTTPError; a body that is not JSON raises a ValueError.
Raises(o) ==
    IF o.kind = "refused" THEN "ConnectError"
    ELSE IF o.kind = "timeout" THEN "ReadTimeout"
    ELSE IF o.status >= 400 THEN "HTTPStatusError"
    ELSE IF o.body.json = "invalid" THEN "JSONDecodeError"
    ELSE ""

IsHTTPError(e) == e \in {"ConnectError", "ReadTimeout", "HTTPStatusError"}

\* f"HTTP error communicating with RStudio: {e}" / f"Error communicating with RStudio: {e}"
HttpErrorText(e) ==
    IF e = "ConnectError" THEN "HTTP error communicating with RStudio: ConnectError"
    ELSE IF e = "ReadTimeout" THEN "HTTP error communicating with RStudio: ReadTimeout"
    ELSE "HTTP error communicating with RStudio: HTTPStatusError"

ErrorText(e) ==
    IF e = "ConnectError" THEN "Error communicating with RStudio: ConnectError"
    ELSE IF e = "ReadTimeout" THEN "Error communicating with RStudio: ReadTimeout"
    ELSE IF e = "HTTPStatusError" THEN "Error communicating with RStudio: HTTPStatusError"
    ELSE "Error communicating with RStudio: JSONDecodeError"

TransportErrorTexts ==
    {HttpErrorText(e) : e \in {"ConnectError", "ReadTimeout", "HTTPStatusError"}}
    \cup {ErrorText(e) : e \in {"ConnectError", "ReadTimeout", "HTTPStatusError", "JSONDecodeError"}}

\* response.json(): a JSON object gives its dict, any other JSON value itself.
Json(body) == IF body.json = "object" THEN Parse(body) ELSE [array |-> <<>>]

\* Faulty variant, for comparison: every failure is rewritten to the channel's own error text.
NormalizeRewrites(fn, o) ==
    IF Raises(o) # "" \/ (o.body.json = "object" /\ ~o.body.success)
    THEN [success |-> FALSE, error |-> "Error communicating with RStudio: JSONDecodeError"]
    ELSE Json(o.body)

\* The value the try block of lines 140-163 / 170-176 returns for one exchange.
Normalize(fn, o) ==
    IF Raises(o) = "" THEN Json(o.body)
    ELSE IF fn = "execute_r_code_via_addin" /\ IsHTTPError(Raises(o))
    THEN [success |-> FALSE, error |-> HttpErrorText(Raises(o))]
    ELSE [success |-> FALSE, error |-> ErrorText(Raises(o))]

Request(url, fn) ==
    [url |-> url, method |-> "POST",
     timeout |-> IF fn = "execute_r_code_via_addin" THEN 120 ELSE 10]

\* Faulty variant, for comparison: a timed out or refused request is sent once more.
ExchangeRetries(url, fn, outs) ==
    IF outs[1].kind \in {"refused", "timeout"}
    THEN [sent |-> <<Request(url, fn), Request(url, fn)>>, result |-> Normalize(fn, outs[2])]
    ELSE [sent |-> <<Request(url, fn)>>, result |-> Normalize(fn, outs[1])]

\* One client.post(...) and what is made of its outcome.
Exchange(url, fn, outs) ==
    [sent |-> <<Request(url, fn)>>, result |-> Normalize(fn, outs[1])]

\* execute_r_code_via_addin / post_to_r_addin after get_r_addin_url() returned url.
Channel(url, fn, outs) ==
    IF url = NoUrl THEN [sent |-> <<>>, result |-> NoSessionsError]
    ELSE Exchange(url, fn, outs)

\* --------------------------------------------------- background jobs
\* uuid.uuid4().hex[:8]: the values a call can yield.
JobIds == {"1f0c9a3e", "7b2d4e61"}

\* asyncio.sleep(10)
PollDelay == 10

\* The job memory of the session on a descriptor's port goes with its process.
JobsLost(js, c) ==
    IF c.json = "object" /\ Has(c, "port") /\ c.port \in DOMAIN js
    THEN [js EXCEPT ![c.port] = [j \in JobIds |-> "none"]]
    ELSE js

\* ---------------------------------------------------------------- state
VARIABLES
    dir,              \* SESSIONS_DIR: file slot -> content
    procs,            \* pid -> "none" | "own" | "other", for the pids on file
    target_session,   \* _target_session
    agent_introduced, \* _agent_introduced
    pin,              \* ghost: the name of the last successful connect while
                      \* its session has stayed in the directory and alive
    hist,             \* ghost: the preceding get_r_addin_url() call and what
                      \* the environment did since
    last,             \* ghost: the operation just completed
    jobs,             \* the sessions' background jobs: port -> job_id -> status
    polling,          \* get_async_result between its addin check and its request
    scan,             \* bridge instance -> where its discover_sessions() call stands
    isdir             \* os.path.isdir(SESSIONS_DIR); files exist only when it holds

vars == <<dir, procs, target_session, agent_introduced, pin, hist, last, jobs, polling, scan, isdir>>

\* What the operations outside the job protocol leave alone.
rest == <<polling, scan, isdir>>

EmptyDir == [f \in Files |-> Absent]
NoProcs == [q \in Pids |-> "none"]
NoJobs == [p \in Ports |-> [j \in JobIds |-> "none"]]
\* url (ghost): the address the addin check of the call went to; first
\* (ghost): the call found _agent_introduced unset.
Idle == [pc |-> "idle", job_id |-> "", url |-> NoUrl, first |-> FALSE]

\* A discover_sessions() call that is not running.  todo: the rest of the
\* listing; info: what json.load gave; touched (ghost): the files that
\* others changed since the listing; missed (ghost): os.remove at line 57
\* met a missing file; fault (ghost): an exception left the call, or the
\* call removed a live descriptor that nobody had changed.
NoScan ==
    [pc |-> "idle", todo |-> <<>>, info |-> Absent, sessions |-> <<>>,
     touched |-> {}, missed |-> FALSE, fault |-> "none"]
NoScans == [b \in Bridges |-> NoScan]

NoHist == [resolved |-> FALSE, url |-> NoUrl, since |-> "none"]
NoResult == [void |-> TRUE]

NoLast ==
    [op |-> "none", arg |-> "", h |-> NoHist,
     pre |-> EmptyDir, preProcs |-> NoProcs,
     preTarget |-> None, atDispatch |-> None, introduced |-> TRUE,
     sessions |-> <<>>, url |-> NoUrl, raised |-> FALSE,
     outcome |-> [kind |-> "none", status |-> 0, body |-> InvalidBody],
     sent |-> <<>>, result |-> NoResult,
     up |-> FALSE, waited |-> 0, job_id |-> "", payload |-> NoResult,
     reply |-> NoResult, preJobs |-> NoJobs, scanned |-> NoScan,
     prevOp |-> "none", prevSessions |-> <<>>, isdir |-> TRUE, probe |-> NoUrl,
     intro |-> FALSE]

Init ==
    /\ dir = EmptyDir
    /\ procs = NoProcs
    /\ target_session = None
    /\ agent_introduced = FALSE
    /\ pin = None
    /\ hist = NoHist
    /\ last = NoLast
    /\ jobs = NoJobs
    /\ polling = Idle
    /\ scan = NoScans
    /\ isdir = FALSE

\* ---------------------------------------------------------- environment
\* The process table is followed only for pids that a file names.
OnFile(d, q) == \E f \in Files : d[f].json = "object" /\ Has(d[f], "pid") /\ d[f].pid = q
Track(d, pr) == [q \in Pids |-> IF OnFile(d, q) THEN pr[q] ELSE "none"]

\* A session that still holds its name and port: its descriptor is on file
\* and its process, if named, exists.
Holds(c, pr) ==
    /\ c.json = "object"
    /\ Has(c, "pid") => ProcessExists(c.pid, pr)

NameTaken(n) ==
    \E g \in Files : Holds(dir[g], procs) /\ Has(dir[g], "session_name") /\ dir[g].session_name = n
PortTaken(p) ==
    \E g \in Files : Holds(dir[g], procs) /\ Has(dir[g], "port") /\ dir[g].port = p

\* File f is the descriptor discovery returns for the bound session.
IsBound(f) ==
    /\ target_session # None
    /\ dir[f].json = "object"
    /\ Has(dir[f], "session_name") /\ dir[f].session_name = target_session
    /\ Keeps(dir[f], procs)

IsPinned(f) ==
    /\ pin # None
    /\ dir[f].json = "object"
    /\ Has(dir[f], "session_name") /\ dir[f].session_name = pin

\* The running discover_sessions() calls, other than that of bridge b, after
\* file f (or its process) was changed.
Touch(sc, f, b) ==
    [x \in Bridges |->
        IF x # b /\ sc[x].pc # "idle" THEN [sc[x] EXCEPT !.touched = @ \cup {f}] ELSE sc[x]]

\* hist and pin after the environment took file f (or its process) away.
AfterLoss(f) ==
    /\ hist' = IF hist.resolved /\ hist.since = "none" /\ IsBound(f)
               THEN [hist EXCEPT !.since = "boundGone"]
               ELSE NoHist
    /\ pin' = IF IsPinned(f) THEN None ELSE pin

\* A target session starts under the account `owner` and writes its descriptor.
StartAs(f, n, p, owner) ==
    /\ dir[f] = Absent
    /\ ~NameTaken(n) /\ ~PortTaken(p)
    /\ dir' = [dir EXCEPT ![f] = Descriptor(n, p, PidOf(f))]
    /\ procs' = [procs EXCEPT ![PidOf(f)] = owner]
    /\ hist' = IF hist.resolved /\ hist.since \in {"none", "added"}
               THEN [hist EXCEPT !.since = "added"]
               ELSE NoHist
    /\ last' = NoLast
    /\ scan' = Touch(scan, f, "")
    /\ UNCHANGED <<target_session, agent_introduced, pin, jobs, polling>>
    /\ isdir' = TRUE

\* A session of the bridge's own user starts.
SessionStart(f, n, p) == StartAs(f, n, p, "own")

\* A session starts under another account: the bridge may not signal it.
SessionStartOther(f, n, p) == StartAs(f, n, p, "other")

\* A session starts where a stale or unreadable file lies and replaces it
\* with its own descriptor.
SessionRestart(f, n, p) ==
    /\ dir[f] # Absent /\ ~Holds(dir[f], procs)
    /\ ~NameTaken(n) /\ ~PortTaken(p)
    /\ dir' = [dir EXCEPT ![f] = Descriptor(n, p, PidOf(f))]
    /\ procs' = [Track(dir', procs) EXCEPT ![PidOf(f)] = "own"]
    /\ hist' = NoHist
    /\ last' = NoLast
    /\ scan' = Touch(scan, f, "")
    /\ UNCHANGED <<target_session, agent_introduced, pin, jobs, polling, isdir>>

\* A file that does not hold a JSON object appears.
WriteGarbage(f, c) ==
    /\ dir[f] = Absent
    /\ dir' = [dir EXCEPT ![f] = c]
    /\ hist' = NoHist
    /\ last' = NoLast
    /\ scan' = Touch(scan, f, "")
    /\ UNCHANGED <<procs, target_session, agent_introduced, pin, jobs, polling>>
    /\ isdir' = TRUE

\* A session writes a JSON object that lacks a key of the descriptor.
WriteIncomplete(f, c) ==
    /\ dir[f] = Absent
    /\ Has(c, "session_name") => ~NameTaken(c.session_name)
    /\ Has(c, "port") => ~PortTaken(c.port)
    /\ dir' = [dir EXCEPT ![f] = c]
    /\ procs' = IF Has(c, "pid") THEN [procs EXCEPT ![c.pid] = "own"] ELSE procs
    /\ hist' = NoHist
    /\ last' = NoLast
    /\ scan' = Touch(scan, f, "")
    /\ UNCHANGED <<target_session, agent_introduced, pin, jobs, polling>>
    /\ isdir' = TRUE

\* The process a descriptor names ends; its file stays behind.
ProcessExit(f) ==
    /\ dir[f].json = "object" /\ Has(dir[f], "pid")
    /\ procs[dir[f].pid] # "none"
    /\ procs' = [procs EXCEPT ![dir[f].pid] = "none"]
    /\ AfterLoss(f)
    /\ jobs' = JobsLost(jobs, dir[f])
    /\ last' = NoLast
    /\ scan' = Touch(scan, f, "")
    /\ UNCHANGED <<dir, target_session, agent_introduced, polling, isdir>>

\* A session removes its own descriptor on shutdown.
RemoveFile(f) ==
    /\ dir[f] # Absent
    /\ dir' = [dir EXCEPT ![f] = Absent]
    /\ procs' = Track(dir', procs)
    /\ AfterLoss(f)
    /\ jobs' = JobsLost(jobs, dir[f])
    /\ last' = NoLast
    /\ scan' = Touch(scan, f, "")
    /\ UNCHANGED <<target_session, agent_introduced, polling, isdir>>

\* The empty discovery directory is removed.
RemoveDir ==
    /\ isdir /\ dir = EmptyDir
    /\ isdir' = FALSE
    /\ hist' = NoHist
    /\ last' = NoLast
    /\ UNCHANGED <<dir, procs, target_session, agent_introduced, pin, jobs, polling, scan>>

\* ------------------------------------------------------ bridge operations
\* discover_sessions(), as serve() and list_sessions call it.
Discover ==
    /\ dir' = Prune(dir, procs)
    /\ procs' = Track(dir', procs)
    /\ hist' = NoHist
    /\ last' = [NoLast EXCEPT !.op = "discover", !.h = hist,
                              !.pre = dir, !.preProcs = procs,
                              !.preTarget = target_session,
                              !.atDispatch = target_session,
                              !.sessions = discover_sessions(Listed(isdir, dir), procs),
                              !.prevOp = last.op,
                              !.prevSessions = last.sessions,
                              !.isdir = isdir]
    /\ UNCHANGED <<target_session, agent_introduced, pin, jobs, rest>>

\* get_r_addin_url(), as check_addin_status() calls it.
Resolve ==
    LET sessions == discover_sessions(Listed(isdir, dir), procs)
        r == Route(sessions, target_session)
    IN
    /\ dir' = Prune(dir, procs)
    /\ procs' = Track(dir', procs)
    /\ target_session' = r.target
    /\ hist' = IF r.raised THEN NoHist
               ELSE [resolved |-> TRUE, url |-> r.url, since |-> "none"]
    /\ last' = [NoLast EXCEPT !.op = "resolve", !.h = hist,
                              !.preTarget = target_session,
                              !.atDispatch = target_session,
                              !.sessions = sessions,
                              !.url = r.url, !.raised = r.raised,
                              !.isdir = isdir]
    /\ UNCHANGED <<agent_introduced, pin, jobs, rest>>

\* execute_r_code_via_addin(code) / post_to_r_addin(payload): r is what
\* get_r_addin_url() gave at line 134 / 167, an exception of which propagates.
SendVia(r, sessions, fn, outs) ==
    LET x == Channel(r.url, fn, outs) IN
    /\ target_session' = r.target
    /\ last' = [NoLast EXCEPT !.op = "send", !.arg = fn,
                              !.sessions = sessions,
                              !.url = r.url, !.raised = r.raised,
                              !.outcome = IF r.raised THEN NoLast.outcome ELSE outs[1],
                              !.sent = IF r.raised THEN <<>> ELSE x.sent,
                              !.result = IF r.raised THEN NoResult ELSE x.result]

Send ==
    LET sessions == discover_sessions(dir, procs)
        r == Route(sessions, target_session)
    IN
    /\ dir' = Prune(dir, procs)
    /\ procs' = Track(dir', procs)
    /\ hist' = NoHist
    /\ \E fn \in Senders, o1 \in Outcomes, o2 \in SecondOutcomes :
          SendVia(r, sessions, fn, <<o1, o2>>)
    /\ UNCHANGED <<agent_introduced, pin, jobs, rest>>

\* Lines 582-588: on the first tool call the introduction is appended to
\* result_contents, unless building it raises (its get_r_addin_url()).
Appended(sessions, tgt, introduced) == ~introduced /\ ~Route(sessions, tgt).raised

\* Whether the list a tool call returns holds the introduction: only
\* result_contents holds it, and of the tools below only execute_r returns
\* result_contents, at line 627 after a successful command; every other
\* return is a new list, and get_async_result empties the list at line 904.
CarriesIntro(tool, ok, appended) == appended /\ tool = "execute_r" /\ ok

\* s.get("session_name", "?") for s in sessions
RECURSIVE NameList(_)
NameList(sessions) ==
    IF sessions = <<>> THEN <<>>
    ELSE <<IF Has(Head(sessions), "session_name") THEN Head(sessions).session_name ELSE "?">>
         \o NameList(Tail(sessions))

\* any(s.get("session_name") == session_name for s in sessions)
Found(sessions, x) ==
    \E i \in Indices(sessions) :
        Has(sessions[i], "session_name") /\ sessions[i].session_name = x

\* Faulty variant, for comparison: the name is bound before it is looked up.
ConnectBindsAnyway(sessions, x, tgt) ==
    IF Found(sessions, x)
    THEN [target |-> x, result |-> [text |-> "Connected to session", session |-> x]]
    ELSE [target |-> x,
          result |-> [text |-> "Session not found. Available:", session |-> x,
                      available |-> NameList(sessions)]]

\* Lines 948-962: the binding and the text returned for a non-empty name.
ConnectTo(sessions, x, tgt) ==
    IF Found(sessions, x)
    THEN [target |-> x, result |-> [text |-> "Connected to session", session |-> x]]
    ELSE [target |-> tgt,
          result |-> [text |-> "Session not found. Available:", session |-> x,
                      available |-> NameList(sessions)]]

ConnectArgs == Names \cup {""}

\* call_tool("connect_session", {"session_name": x}): no addin check; on the
\* first tool call the introduction runs get_r_addin_url() (any exception
\* swallowed, line 587); then lines 940-962.
Connect(x) ==
    LET sessions == discover_sessions(dir, procs)
        intro == Route(sessions, target_session)
        tgt1 == IF agent_introduced THEN target_session ELSE intro.target
        scanned == ~agent_introduced \/ x # ""
        c == ConnectTo(sessions, x, tgt1)
    IN
    /\ agent_introduced' = TRUE
    /\ dir' = IF scanned THEN Prune(dir, procs) ELSE dir
    /\ procs' = Track(dir', procs)
    /\ target_session' = IF x = "" THEN tgt1 ELSE c.target
    /\ pin' = IF x # "" /\ Found(sessions, x) THEN x ELSE pin
    /\ hist' = NoHist
    /\ last' = [NoLast EXCEPT !.op = "connect", !.arg = x, !.h = hist,
                              !.preTarget = target_session,
                              !.atDispatch = tgt1,
                              !.introduced = agent_introduced,
                              !.intro = CarriesIntro("connect_session",
                                            x # "" /\ Found(sessions, x),
                                            Appended(sessions, target_session, agent_introduced)),
                              !.sessions = IF x = "" THEN <<>> ELSE sessions,
                              !.result = IF x = ""
                                         THEN [text |-> "Error: 'session_name' is required"]
                                         ELSE c.result]
    /\ UNCHANGED <<jobs, rest>>

\* ------------------------------------------------- job protocol: target
\* A session process that holds port p answers requests sent there.
Listener(d, pr, p) ==
    \E f \in Files : Holds(d[f], pr) /\ Has(d[f], "port") /\ d[f].port = p

\* The session knows a job under id j.
Known(js, p, j) == p \in DOMAIN js /\ j \in JobIds /\ js[p][j] # "none"

\* The session's answer to {"code": ..., "async": true, "job_id": id}: the
\* job is launched in a background process and acknowledged at once.
LaunchReply(id) == [success |-> TRUE, job_id |-> id, status |-> "started"]
Launched(js, p, id) == [js EXCEPT ![p][id] = "running"]

\* Whether the session got the request of an exchange with outcome o: it
\* did when it answered, it did not when the connection was refused, and
\* either may be the case when no answer came within the timeout.
Delivery(o, delivered) ==
    /\ o.kind = "response" => delivered
    /\ o.kind = "refused" => ~delivered

\* The session's answer to {"check_job": j}.
CheckJobReply(js, p, j) ==
    IF ~Known(js, p, j) THEN [status |-> "not_found"]
    ELSE IF js[p][j] = "running" THEN [status |-> "running", elapsed_seconds |-> "12"]
    ELSE IF js[p][j] = "ok"
    THEN [status |-> "completed", success |-> TRUE, output |-> "[1] 42"]
    ELSE [status |-> "completed", success |-> FALSE, error |-> "object 'x' not found"]

\* The session retires an id once it has reported its terminal status.
Checked(js, p, j) ==
    IF Known(js, p, j) /\ js[p][j] # "running" THEN [js EXCEPT ![p][j] = "none"] ELSE js

\* The background process of job j on the session at port p ends.
JobFinish(p, j, st) ==
    /\ jobs[p][j] = "running"
    /\ jobs' = [jobs EXCEPT ![p][j] = st]
    /\ last' = NoLast
    /\ UNCHANGED <<dir, procs, target_session, agent_introduced, pin, hist, rest>>

\* ------------------------------------------------- job protocol: bridge
\* _agent_id, set in serve()
AgentId == "agent-5c1d27aa"

\* d.get(k, dflt)
Get(d, k, dflt) == IF Has(d, k) THEN d[k] ELSE dflt

\* Faulty variant, for comparison: the payload is not tagged as asynchronous.
SubmitPayloadSync(code, id) ==
    [code |-> code, job_id |-> id, agent_id |-> AgentId]

SubmitPayload(code, id) ==
    [code |-> code, async |-> TRUE, job_id |-> id, agent_id |-> AgentId]

CheckPayload(j) == [check_job |-> j]

\* The HTTP exchange of a job request: not answered, or answered by the
\* session with a JSON object.
Unanswered ==
    {[kind |-> "refused", status |-> 0, body |-> InvalidBody],
     [kind |-> "timeout", status |-> 0, body |-> InvalidBody]}

Reply200(reply) ==
    [kind |-> "response", status |-> 200,
     body |-> [k \in (DOMAIN reply) \cup {"json"} |->
                  IF k = "json" THEN "object" ELSE reply[k]]]

NotRunningText == [kind |-> "addin_not_running"]
CodeRequiredText == [kind |-> "code_required"]

\* Lines 862-871: what execute_r_async returns for the channel's result.
SubmitText(id, result) ==
    IF ~Get(result, "success", FALSE)
    THEN [kind |-> "start_error", error |-> Get(result, "error", "Unknown error")]
    ELSE [kind |-> "started", job_id |-> id]

\* Faulty variant, for comparison: a running job is taken for a finished one.
PollTextNoRunning(j, result) ==
    LET status == Get(result, "status", "unknown") IN
    IF status = "not_found" THEN [kind |-> "not_found", job_id |-> j]
    ELSE IF ~Get(result, "success", FALSE)
    THEN [kind |-> "job_error", error |-> Get(result, "error", "Unknown error")]
    ELSE [kind |-> "output", text |-> Get(result, "output", "")]

\* Lines 882-914: what get_async_result returns for the channel's result.
PollText(j, result) ==
    LET status == Get(result, "status", "unknown") IN
    IF status = "not_found" THEN [kind |-> "not_found", job_id |-> j]
    ELSE IF status = "running"
    THEN [kind |-> "running", job_id |-> j, elapsed |-> Get(result, "elapsed_seconds", "?")]
    ELSE IF ~Get(result, "success", FALSE)
    THEN [kind |-> "job_error", error |-> Get(result, "error", "Unknown error")]
    ELSE IF Has(result, "output") /\ result.output # ""
    THEN [kind |-> "output", text |-> result.output]
    ELSE [kind |-> "no_output"]

\* Lines 571-588: the addin check (its get_r_addin_url() at line 184 is
\* outside any try) and, on the first tool call, the introduction, whose
\* exceptions are swallowed.  up: the GET of line 189 returned status 200.
Prelude(sessions, tgt, introduced, up) ==
    LET r1 == Route(sessions, tgt) IN
    IF r1.raised THEN [done |-> "raised", target |-> r1.target, introduced |-> introduced]
    ELSE IF ~up THEN [done |-> "not_running", target |-> r1.target, introduced |-> introduced]
    ELSE [done |-> "go", introduced |-> TRUE,
          target |-> IF introduced THEN r1.target ELSE Route(sessions, r1.target).target]

Commands == {"fit <- lm(y ~ x, big)"}

\* call_tool("execute_r_async", {"code": code}), lines 565-588 and 841-871;
\* hasCode: the arguments carry "code".
Submit(hasCode) ==
    LET sessions == discover_sessions(dir, procs) IN
    \E up \in BOOLEAN :
        LET pre == Prelude(sessions, target_session, agent_introduced, up)
            r == Route(sessions, pre.target)
        IN
        /\ dir' = Prune(dir, procs)
        /\ procs' = Track(dir', procs)
        /\ agent_introduced' = pre.introduced
        /\ hist' = NoHist
        /\ UNCHANGED <<pin, rest>>
        /\ IF pre.done # "go" \/ ~hasCode
           THEN /\ target_session' = pre.target
                /\ jobs' = jobs
                /\ last' = [NoLast EXCEPT !.op = "submit", !.up = up,
                               !.introduced = agent_introduced,
                               !.raised = (pre.done = "raised"),
                               !.result = IF pre.done = "raised" THEN NoResult
                                          ELSE IF pre.done = "not_running" THEN NotRunningText
                                          ELSE CodeRequiredText]
           ELSE \E code \in Commands, id \in JobIds, delivered \in BOOLEAN :
                \E o \in Unanswered \cup {Reply200(LaunchReply(id))} :
                    LET answered == o.kind = "response"
                        x == Channel(r.url, "post_to_r_addin", <<o, o>>)
                    IN
                    /\ delivered => (~r.raised /\ Listener(dir, procs, r.url.port))
                    /\ Delivery(o, delivered)
                    /\ target_session' = r.target
                    /\ jobs' = IF delivered THEN Launched(jobs, r.url.port, id) ELSE jobs
                    /\ last' = [NoLast EXCEPT !.op = "submit", !.arg = code, !.up = up,
                                   !.probe = Route(sessions, target_session).url,
                                   !.introduced = agent_introduced,
                                   !.intro = CarriesIntro("execute_r_async",
                                                 Get(x.result, "success", FALSE),
                                                 ~agent_introduced),
                                   !.url = r.url, !.raised = r.raised,
                                   !.job_id = id,
                                   !.payload = SubmitPayload(code, id),
                                   !.outcome = IF r.raised THEN NoLast.outcome ELSE o,
                                   !.sent = IF r.raised THEN <<>> ELSE x.sent,
                                   !.reply = IF r.raised THEN NoResult ELSE x.result,
                                   !.result = IF r.raised THEN NoResult
                                              ELSE SubmitText(id, x.result),
                                   !.preJobs = jobs]

PollArgs == JobIds \cup {""}

\* call_tool("get_async_result", {"job_id": j}) up to the sleep of line 877:
\* lines 565-588 and 873-877.
PollCall(j) ==
    LET sessions == discover_sessions(dir, procs) IN
    /\ polling.pc = "idle"
    /\ \E up \in BOOLEAN :
        LET pre == Prelude(sessions, target_session, agent_introduced, up) IN
        /\ dir' = Prune(dir, procs)
        /\ procs' = Track(dir', procs)
        /\ target_session' = pre.target
        /\ agent_introduced' = pre.introduced
        /\ hist' = NoHist
        /\ UNCHANGED <<pin, jobs, scan, isdir>>
        /\ IF pre.done = "go"
           THEN /\ polling' = [pc |-> "sleeping", job_id |-> j,
                                url |-> Route(sessions, target_session).url,
                                first |-> ~agent_introduced]
                /\ last' = [NoLast EXCEPT !.op = "polling", !.arg = j, !.up = TRUE]
           ELSE /\ polling' = Idle
                /\ last' = [NoLast EXCEPT !.op = "poll", !.arg = j, !.up = FALSE,
                               !.introduced = agent_introduced,
                               !.raised = (pre.done = "raised"),
                               !.waited = 0,
                               !.result = IF pre.done = "raised" THEN NoResult
                                          ELSE NotRunningText]

\* get_async_result once the sleep is over: lines 880-914.
PollWake ==
    LET j == polling.job_id
        sessions == discover_sessions(dir, procs)
        r == Route(sessions, target_session)
    IN
    /\ polling.pc = "sleeping"
    /\ polling' = Idle
    /\ dir' = Prune(dir, procs)
    /\ procs' = Track(dir', procs)
    /\ target_session' = r.target
    /\ hist' = NoHist
    /\ UNCHANGED <<agent_introduced, pin, scan, isdir>>
    /\ \E o \in Unanswered \cup {Reply200(CheckJobReply(jobs, r.url.port, j))} :
        LET answered == o.kind = "response"
            x == Channel(r.url, "post_to_r_addin", <<o, o>>)
        IN
        /\ answered => (~r.raised /\ Listener(dir, procs, r.url.port))
        /\ jobs' = IF answered THEN Checked(jobs, r.url.port, j) ELSE jobs
        /\ last' = [NoLast EXCEPT !.op = "poll", !.arg = j, !.up = TRUE,
                       !.waited = PollDelay,
                       !.probe = polling.url,
                       !.introduced = ~polling.first,
                       !.intro = CarriesIntro("get_async_result",
                                     Get(x.result, "success", FALSE), polling.first),
                       !.preTarget = target_session,
                       !.sessions = sessions,
                       !.url = r.url, !.raised = r.raised,
                       !.payload = CheckPayload(j),
                       !.outcome = IF r.raised THEN NoLast.outcome ELSE o,
                       !.sent = IF r.raised THEN <<>> ELSE x.sent,
                       !.reply = IF r.raised THEN NoResult ELSE x.result,
                       !.result = IF r.raised THEN NoResult ELSE PollText(j, x.result),
                       !.preJobs = jobs]

\* ------------------------------------------------ execute_r, list_sessions
\* Lines 599-630: what execute_r returns for the channel's result.
ExecText(result) ==
    IF ~Get(result, "success", FALSE)
    THEN [kind |-> "r_error", error |-> Get(result, "error", "Unknown error")]
    ELSE IF Has(result, "output") /\ result.output # ""
    THEN [kind |-> "output", text |-> result.output]
    ELSE [kind |-> "no_output"]

\* The responses a session gives to a command: a JSON object, or none.
ExecOutcomes == {o \in Outcomes : o.body.json # "array"}

\* call_tool("execute_r", {"code": code}), lines 565-630; hasCode: the
\* arguments carry "code".
ExecuteR(hasCode) ==
    LET sessions == discover_sessions(dir, procs) IN
    \E up \in BOOLEAN :
        LET pre == Prelude(sessions, target_session, agent_introduced, up)
            r == Route(sessions, pre.target)
        IN
        /\ dir' = Prune(dir, procs)
        /\ procs' = Track(dir', procs)
        /\ agent_introduced' = pre.introduced
        /\ hist' = NoHist
        /\ UNCHANGED <<pin, jobs, rest>>
        /\ IF pre.done # "go" \/ ~hasCode
           THEN /\ target_session' = pre.target
                /\ last' = [NoLast EXCEPT !.op = "execute_r", !.up = up,
                               !.introduced = agent_introduced,
                               !.raised = (pre.done = "raised"),
                               !.result = IF pre.done = "raised" THEN NoResult
                                          ELSE IF pre.done = "not_running" THEN NotRunningText
                                          ELSE CodeRequiredText]
           ELSE \E o1 \in ExecOutcomes, o2 \in SecondOutcomes :
                    LET x == Channel(r.url, "execute_r_code_via_addin", <<o1, o2>>) IN
                    /\ target_session' = r.target
                    /\ last' = [NoLast EXCEPT !.op = "execute_r", !.up = up,
                                   !.introduced = agent_introduced,
                                   !.intro = CarriesIntro("execute_r",
                                                 Get(x.result, "success", FALSE),
                                                 ~agent_introduced),
                                   !.url = r.url, !.raised = r.raised,
                                   !.outcome = IF r.raised THEN NoLast.outcome ELSE o1,
                                   !.sent = IF r.raised THEN <<>> ELSE x.sent,
                                   !.result = IF r.raised THEN NoResult
                                              ELSE ExecText(x.result)]

\* call_tool("list_sessions", {}): no addin check; on the first tool call
\* the introduction runs get_r_addin_url(); then lines 916-938.
ListSessions ==
    LET sessions == discover_sessions(dir, procs)
        intro == Route(sessions, target_session)
    IN
    /\ agent_introduced' = TRUE
    /\ dir' = Prune(dir, procs)
    /\ procs' = Track(dir', procs)
    /\ target_session' = IF agent_introduced THEN target_session ELSE intro.target
    /\ hist' = NoHist
    /\ last' = [NoLast EXCEPT !.op = "list", !.h = hist,
                              !.preTarget = target_session,
                              !.atDispatch = target_session',
                              !.introduced = agent_introduced,
                              !.intro = CarriesIntro("list_sessions", TRUE,
                                            Appended(sessions, target_session, agent_introduced)),
                              !.sessions = sessions,
                              !.result = [text |-> IF sessions = <<>>
                                                   THEN "No active R sessions found."
                                                   ELSE "Active R sessions",
                                          names |-> NameList(sessions),
                                          target |-> target_session']]
    /\ UNCHANGED <<pin, jobs, rest>>

\* --------------------------------------- discover_sessions, step by step
\* os.listdir(SESSIONS_DIR): the .json files present, in listing order.
RECURSIVE Listdir(_, _)
Listdir(f, d) ==
    IF f > MaxFiles THEN <<>>
    ELSE IF d[f] # Absent THEN <<f>> \o Listdir(f + 1, d)
    ELSE Listdir(f + 1, d)

\* Lines 54-56: open(fpath), json.load(fh) and info.get succeed.
Loads(c) == c # Absent /\ c.json = "object"

\* Faulty variant, for comparison: the removal in the handler is not guarded.
RemoveLoudly(c) == IF c = Absent THEN "raised" ELSE "removed"

\* Lines 61-64: os.remove(fpath) in the handler; OSError is passed over.
RemoveQuietly(c) == IF c = Absent THEN "passed" ELSE "removed"

\* What is left of the scan record after file f is done with.
NextFile(r) == [r EXCEPT !.pc = "open", !.todo = Tail(@), !.info = Absent]

\* The scan of bridge b removes file f: the ghost notes a live descriptor
\* that nobody had changed.
Removes(r, f) ==
    [NextFile(r) EXCEPT !.fault = IF Keeps(dir[f], procs) /\ f \notin r.touched
                                  THEN "removed_live" ELSE @]

\* Lines 46-49: sessions = [] and the listing.
ScanList(b) ==
    /\ scan[b].pc = "idle"
    /\ scan' = [scan EXCEPT ![b] = [NoScan EXCEPT !.pc = "open", !.todo = Listdir(1, Listed(isdir, dir))]]
    /\ last' = NoLast
    /\ UNCHANGED <<dir, procs, target_session, agent_introduced, pin, hist, jobs, polling, isdir>>

\* Lines 52-55: the next file is opened and parsed, or an exception is raised.
ScanOpen(b) ==
    /\ scan[b].pc = "open" /\ scan[b].todo # <<>>
    /\ LET c == dir[Head(scan[b].todo)] IN
       scan' = [scan EXCEPT ![b].pc = IF Loads(c) THEN "probe" ELSE "except",
                            ![b].info = IF Loads(c) THEN c ELSE Absent]
    /\ last' = NoLast
    /\ UNCHANGED <<dir, procs, target_session, agent_introduced, pin, hist, jobs, polling, isdir>>

\* Lines 56 and 59: the liveness test; a live descriptor is appended.
ScanProbe(b) ==
    /\ scan[b].pc = "probe"
    /\ scan' = IF PidAlive(GetPid(scan[b].info), procs)
               THEN [scan EXCEPT ![b] = [NextFile(@) EXCEPT
                                            !.sessions = Append(@, Parse(scan[b].info))]]
               ELSE [scan EXCEPT ![b].pc = "remove"]
    /\ last' = NoLast
    /\ UNCHANGED <<dir, procs, target_session, agent_introduced, pin, hist, jobs, polling, isdir>>

\* Lines 57-58: os.remove(fpath) of a dead descriptor; a missing file raises
\* FileNotFoundError into the handler of line 60.
ScanRemove(b) ==
    /\ scan[b].pc = "remove"
    /\ LET f == Head(scan[b].todo) IN
       IF dir[f] = Absent
       THEN /\ scan' = [scan EXCEPT ![b].pc = "except", ![b].missed = TRUE]
            /\ UNCHANGED <<dir, procs>>
       ELSE /\ dir' = [dir EXCEPT ![f] = Absent]
            /\ procs' = Track(dir', procs)
            /\ scan' = [Touch(scan, f, b) EXCEPT ![b] = Removes(scan[b], f)]
    /\ last' = NoLast
    /\ UNCHANGED <<target_session, agent_introduced, pin, hist, jobs, polling, isdir>>

\* Lines 60-64: the handler removes the file, or passes over OSError.
ScanExcept(b) ==
    /\ scan[b].pc = "except"
    /\ LET f == Head(scan[b].todo)
           how == RemoveQuietly(dir[f])
       IN
       /\ dir' = IF how = "removed" THEN [dir EXCEPT ![f] = Absent] ELSE dir
       /\ procs' = Track(dir', procs)
       /\ scan' = IF how = "raised" THEN [scan EXCEPT ![b] = NoScan]
                  ELSE IF how = "removed"
                  THEN [Touch(scan, f, b) EXCEPT ![b] = Removes(scan[b], f)]
                  ELSE [scan EXCEPT ![b] = NextFile(@)]
       /\ last' = IF how = "raised"
                  THEN [NoLast EXCEPT !.op = "scan", !.arg = b, !.raised = TRUE,
                                      !.scanned = [scan[b] EXCEPT !.fault = "raised"]]
                  ELSE NoLast
    /\ UNCHANGED <<target_session, agent_introduced, pin, hist, jobs, polling, isdir>>

\* Line 65: return sessions.
ScanReturn(b) ==
    /\ scan[b].pc = "open" /\ scan[b].todo = <<>>
    /\ scan' = [scan EXCEPT ![b] = NoScan]
    /\ last' = [NoLast EXCEPT !.op = "scan", !.arg = b,
                              !.sessions = scan[b].sessions,
                              !.scanned = scan[b]]
    /\ UNCHANGED <<dir, procs, target_session, agent_introduced, pin, hist, jobs, polling, isdir>>

\* ------------------------------------------------------------ behaviours
Environment ==
    \/ \E f \in Files, n \in Names, p \in Ports : SessionStart(f, n, p)
    \/ \E f \in Files, c \in Garbage : WriteGarbage(f, c)
    \/ \E f \in Files : ProcessExit(f)
    \/ \E f \in Files : RemoveFile(f)
    \/ RemoveDir

\* Producers outside the descriptor format of spec.md section 6.
Irregular ==
    \/ \E f \in Files, n \in Names, p \in Ports : SessionStartOther(f, n, p)
    \/ \E f \in Files : \E c \in Incomplete(f) : WriteIncomplete(f, c)

Bridge ==
    \/ Discover
    \/ Resolve
    \/ Send
    \/ \E x \in ConnectArgs : Connect(x)

\* Sessions of the bridge's user that write complete descriptors, stale and
\* unparsable files, and one bridge.
Next == Environment \/ Bridge

Spec == Init /\ [][Next]_vars

\* The same with sessions of other accounts and incomplete descriptors.
NextAll == Environment \/ Irregular \/ Bridge

SpecAll == Init /\ [][NextAll]_vars

\* The session that uses file slot f: "default" on 8787, "alpha" on 9000, ...
HomeName(f) == IF f % 3 = 1 THEN "default" ELSE IF f % 3 = 2 THEN "alpha" ELSE "beta"
HomePort(f) == IF f % 2 = 1 THEN 8787 ELSE 9000

\* The number of jobs the sessions hold.
Outstanding(js) == Cardinality({pj \in Ports \X JobIds : js[pj[1]][pj[2]] # "none"})

\* Sessions that come and go with their background jobs, and one bridge
\* that handles one tool call at a time.
JobEnvironment ==
    \/ \E f \in Files : SessionStart(f, HomeName(f), HomePort(f))
    \/ \E f \in Files : ProcessExit(f)
    \/ \E f \in Files : RemoveFile(f)
    \/ \E p \in Ports, j \in JobIds, st \in {"ok", "error"} : JobFinish(p, j, st)

JobBridge ==
    \/ polling.pc = "idle" /\ Send
    \/ polling.pc = "idle" /\ \E x \in Names : Connect(x)
    \/ /\ polling.pc = "idle"
       /\ \E hasCode \in BOOLEAN : Submit(hasCode)
       /\ Outstanding(jobs') <= MaxJobs
    \/ \E j \in PollArgs : PollCall(j)
    \/ PollWake

NextJobs == JobEnvironment \/ JobBridge

SpecJobs == Init /\ [][NextJobs]_vars

\* ------------------------------------------------------------- claims
Range(seq) == {seq[i] : i \in Indices(seq)}

\* Every discovered entry carries the keys the router reads.
AllComplete(sessions) ==
    \A i \in Indices(sessions) :
        Has(sessions[i], "session_name") /\ Has(sessions[i], "port")

SessionNames(sessions) ==
    {sessions[i].session_name : i \in {j \in Indices(sessions) : Has(sessions[j], "session_name")}}

\* C1: one discover() call returns exactly the descriptors of the directory
\* whose pid is alive, and the file of every other descriptor is deleted
\* when it returns.
C1_DiscoverReturnsAlive ==
    last.op = "discover" =>
        \A f \in Files :
            Complete(last.pre[f]) =>
                IF ProcessExists(last.pre[f].pid, last.preProcs)
                THEN Parse(last.pre[f]) \in Range(last.sessions) /\ dir[f] = last.pre[f]
                ELSE Parse(last.pre[f]) \notin Range(last.sessions) /\ dir[f] = Absent

\* C2: two consecutive resolve() calls with nothing in between (the same
\* live sessions, no connect) return the same address; by induction, N do.
C2_Sticky ==
    (/\ last.op = "resolve"
     /\ last.h.resolved /\ last.h.since = "none"
     /\ AllComplete(last.sessions))
    => (~last.raised /\ last.url = last.h.url)

C2_Witness ==
    /\ last.op = "resolve"
    /\ last.h.resolved /\ last.h.since = "none"
    /\ Len(last.sessions) = 2
    /\ last.url = last.h.url
    /\ last.url # Url(PortKey(last.sessions[1]))

\* The second of two resolve() calls between which the environment removed
\* the bound session (its descriptor, or its process) and did nothing else.
AfterBoundGone ==
    /\ last.op = "resolve"
    /\ last.h.resolved /\ last.h.since = "boundGone"
    /\ AllComplete(last.sessions)

\* C3 as stated: the second call does not raise and returns an address
\* different from the first one.
C3_DifferentAddress ==
    AfterBoundGone => (~last.raised /\ last.url # last.h.url)

\* C3 as amended: the second call does not raise; with a session left it
\* returns the address of a live session, which differs from the first
\* address; with none left it returns the fallback address, which differs
\* from the first address unless the removed session used the fallback port.
C3_SelfHealing ==
    AfterBoundGone =>
        /\ ~last.raised
        /\ IF last.sessions = <<>>
           THEN /\ last.url = R_ADDIN_URL
                /\ (last.h.url.port # FallbackPort => last.url # last.h.url)
           ELSE /\ \E i \in Indices(last.sessions) : last.url = Url(last.sessions[i].port)
                /\ last.url # last.h.url

C3_Witness ==
    /\ AfterBoundGone
    /\ last.sessions # <<>>
    /\ ~last.raised
    /\ last.url # last.h.url

\* resolve() ran with no binding, or with a binding that names no
\* discovered session, and discovery was not empty.
AutoPickCase ==
    /\ last.op = "resolve"
    /\ last.sessions # <<>>
    /\ AllComplete(last.sessions)
    /\ last.preTarget \notin SessionNames(last.sessions)

\* Entry i is the one named "default" if there is one, else one of lowest port.
Preferred(sessions, i) ==
    IF "default" \in SessionNames(sessions)
    THEN sessions[i].session_name = "default"
    ELSE \A j \in Indices(sessions) : sessions[i].port <= sessions[j].port

\* C4: auto-pick selects the descriptor named "default" if one exists, else
\* the one with the lowest port, binds its session_name and returns the
\* address of its port.
C4_AutoPick ==
    AutoPickCase =>
        /\ ~last.raised
        /\ \E i \in Indices(last.sessions) :
              /\ Preferred(last.sessions, i)
              /\ target_session = last.sessions[i].session_name
              /\ last.url = Url(last.sessions[i].port)

\* "default" is picked although another session has the lower port, and a
\* stale binding was replaced.
C4_Witness ==
    /\ AutoPickCase
    /\ last.preTarget # None
    /\ target_session = "default"
    /\ \E i \in Indices(last.sessions) : last.sessions[i].port < last.url.port

NotFoundText == "Session not found. Available:"

AddressOf(sessions, x, url) ==
    \E i \in Indices(sessions) :
        /\ sessions[i].session_name = x
        /\ url = Url(sessions[i].port)

\* C6: a connect(X) that finds X binds X whatever the binding was; while X
\* stays in the directory and alive and no other connect succeeds, the
\* binding stays X and every resolve() (alone or inside send) returns the
\* address of X's descriptor.
C6_ConnectPins ==
    /\ (last.op = "connect" /\ last.arg # "" /\ Found(last.sessions, last.arg))
          => (target_session = last.arg /\ pin = last.arg)
    /\ pin # None => target_session = pin
    /\ (pin # None /\ last.op \in {"resolve", "send"} /\ AllComplete(last.sessions))
          => (~last.raised /\ AddressOf(last.sessions, pin, last.url))

\* A resolve() keeps to the connected session although "default" is live.
C6_Witness ==
    /\ last.op = "resolve"
    /\ pin # None /\ pin # "default"
    /\ "default" \in SessionNames(last.sessions)
    /\ AddressOf(last.sessions, pin, last.url)

\* C7: with no session discovered, send() reports the explicit "no
\* sessions" error, which is none of the transport errors.
C7_NoSessionsError ==
    (last.op = "send" /\ ~last.raised /\ last.sessions = <<>>) =>
        /\ last.result = NoSessionsError
        /\ NoSessionsError.error \notin TransportErrorTexts

\* C8: send() never propagates an exception, whatever the directory holds.
C8_SendNeverRaises ==
    last.op = "send" => ~last.raised

\* A response with a success status whose body is a JSON object.
WellFormedResponse(o) ==
    o.kind = "response" /\ o.status = 200 /\ o.body.json = "object"

C10_NoRetry ==
    last.op = "send" =>
        /\ Len(last.sent) <= 1
        /\ (~last.raised /\ last.outcome.kind \in {"refused", "timeout"}) =>
              /\ Len(last.sent) = 1
              /\ last.result.success = FALSE
              /\ last.result.error \in TransportErrorTexts

C10_Witness ==
    /\ last.op = "send" /\ ~last.raised
    /\ last.outcome.kind = "timeout"
    /\ last.url # R_ADDIN_URL
    /\ Len(last.sent) = 1
    /\ last.result.success = FALSE

\* Sessions and other writers change the directory while the bridges'
\* discover_sessions() calls run step by step, with no lock.
RaceEnvironment ==
    \/ \E f \in Files : SessionStart(f, HomeName(f), HomePort(f))
    \/ \E f \in Files : SessionRestart(f, HomeName(f), HomePort(f))
    \/ \E f \in Files, c \in Garbage : WriteGarbage(f, c)
    \/ \E f \in Files : ProcessExit(f)
    \/ \E f \in Files : RemoveFile(f)

\* One discover_sessions() call of bridge b, step by step.
Scan(b) ==
    \/ ScanList(b)
    \/ ScanOpen(b)
    \/ ScanProbe(b)
    \/ ScanRemove(b)
    \/ ScanExcept(b)
    \/ ScanReturn(b)

NextRace == RaceEnvironment \/ Scan("b1")

SpecRace == Init /\ [][NextRace]_vars

\* Sessions start and end while the discover_sessions() calls of two bridges
\* interleave, with no lock.
NextBridges ==
    \/ \E f \in Files : SessionStart(f, HomeName(f), HomePort(f))
    \/ \E f \in Files : ProcessExit(f)
    \/ \E b \in Bridges : Scan(b)

SpecBridges == Init /\ [][NextBridges]_vars

\* Sessions that come and go, and one bridge whose agent calls the tools,
\* one call at a time.
ToolCalls ==
    \/ polling.pc = "idle" /\ \E hasCode \in BOOLEAN : ExecuteR(hasCode)
    \/ polling.pc = "idle" /\ ListSessions
    \/ polling.pc = "idle" /\ \E x \in ConnectArgs : Connect(x)
    \/ /\ polling.pc = "idle"
       /\ \E hasCode \in BOOLEAN : Submit(hasCode)
       /\ Outstanding(jobs') <= MaxJobs
    \/ \E j \in PollArgs : PollCall(j)
    \/ PollWake

NextTools ==
    \/ \E f \in Files : SessionStart(f, HomeName(f), HomePort(f))
    \/ \E f \in Files : ProcessExit(f)
    \/ ToolCalls

SpecTools == Init /\ [][NextTools]_vars

\* One session, in file slot 1, its jobs, and one bridge.
LiveNext ==
    \/ SessionStart(1, HomeName(1), HomePort(1))
    \/ ProcessExit(1)
    \/ \E j \in JobIds, st \in {"ok", "error"} : JobFinish(HomePort(1), j, st)
    \/ polling.pc = "idle" /\ Send
    \/ /\ polling.pc = "idle"
       /\ \E hasCode \in BOOLEAN : Submit(hasCode)
       /\ Outstanding(jobs') <= MaxJobs
    \/ \E j \in PollArgs : PollCall(j)
    \/ PollWake

\* The id whose polls are followed.
PolledJob == "1f0c9a3e"

\* A poll of job j that passes the addin check, and a status request for j
\* that the session answers.
PollCallUp(j) == PollCall(j) /\ polling'.pc = "sleeping"
PollAnswered(j) == PollWake /\ polling.job_id = j /\ last'.outcome.kind = "response"

\* asyncio.sleep() returns; the agent polls PolledJob again and again, a live
\* session answers its status requests again and again, and the background
\* process of PolledJob comes to its end.
LiveFairness ==
    /\ WF_vars(PollWake)
    /\ SF_vars(PollCallUp(PolledJob))
    /\ SF_vars(PollAnswered(PolledJob))
    /\ WF_vars(\E st \in {"ok", "error"} : JobFinish(HomePort(1), PolledJob, st))

SpecLive == Init /\ [][LiveNext]_vars /\ LiveFairness

\* ------------------------------------------------------ claims: jobs
\* C11: every poll(job_id), whatever the id and the job's state, returns
\* only after the throttle delay, and sends its status request only after it.
C11_PollAlwaysWaits ==
    (last.op = "poll" /\ ~last.raised) =>
        /\ last.waited >= PollDelay
        /\ last.sent # <<>> => last.waited >= PollDelay

StillRunning(r) == r.kind = "running"
NotFound(r) == r.kind = "not_found"
Completed(r) == r.kind \in {"job_error", "output", "no_output"}

\* The response of the status exchange carries a terminal status.
TerminalReply(o) ==
    /\ o.kind = "response" /\ o.status = 200
    /\ Has(o.body, "status") /\ o.body.status \notin {"running", "not_found"}

\* C12: a poll that has made its status exchange returns one of
\* still-running, not-found or completed, matching what the target
\* reported; it reports a completed job (success or error) only when the
\* target's response carries a terminal status.
C12_PollOutcome ==
    (last.op = "poll" /\ last.sent # <<>>) =>
        /\ StillRunning(last.result) \/ NotFound(last.result) \/ Completed(last.result)
        /\ Completed(last.result) => TerminalReply(last.outcome)

\* The poll whose status request the session answered while it held job
\* last.arg as running.
ObservedRunning ==
    /\ last.op = "poll" /\ ~last.raised
    /\ last.outcome.kind = "response"
    /\ Known(last.preJobs, last.url.port, last.arg)
    /\ last.preJobs[last.url.port][last.arg] = "running"

\* C13: a poll that observes a running job returns still-running, sends
\* nothing but the status request, and leaves every job of every session as
\* it was; the bridge holds nothing about the job afterwards.
C13_PollRunningIdempotent ==
    ObservedRunning =>
        /\ StillRunning(last.result) /\ last.result.job_id = last.arg
        /\ Len(last.sent) = 1 /\ last.payload = [check_job |-> last.arg]
        /\ jobs = last.preJobs
        /\ polling = Idle

C13_Witness ==
    /\ ObservedRunning
    /\ StillRunning(last.result)
    /\ last.url.port = 9000
    /\ jobs[9000][last.arg] = "running"

\* C14: a submit that reaches the channel sends one request whose payload
\* carries the command, async = true and the id generated in this call; once
\* the session acknowledges, the call returns that id with the job still
\* running; a synchronous command sent while a job is running is answered.
C14_SubmitReturnsId ==
    /\ (last.op = "submit" /\ last.sent # <<>>) =>
          /\ Len(last.sent) = 1
          /\ last.payload.code = last.arg
          /\ Has(last.payload, "async") /\ last.payload.async = TRUE
          /\ last.job_id \in JobIds /\ last.payload.job_id = last.job_id
          /\ IF last.outcome.kind = "response"
             THEN /\ last.result = [kind |-> "started", job_id |-> last.job_id]
                  /\ jobs[last.url.port][last.job_id] = "running"
             ELSE last.result.kind = "start_error"
    /\ (last.op = "send" /\ ~last.raised /\ Outstanding(jobs) > 0
          /\ WellFormedResponse(last.outcome))
          => (polling = Idle /\ last.result = Parse(last.outcome.body))

\* A synchronous command is answered by the session that runs a job.
C14_Witness ==
    /\ last.op = "send" /\ ~last.raised
    /\ last.outcome.body = OkBody /\ last.outcome.status = 200
    /\ last.result = Parse(OkBody)
    /\ \E j \in JobIds : jobs[last.url.port][j] = "running"

\* C15: the id a submit generates differs from the id of every job
\* outstanding on the session that receives it.
C15_FreshJobId ==
    (last.op = "submit" /\ ~last.raised /\ last.outcome.kind = "response") =>
        ~Known(last.preJobs, last.url.port, last.job_id)

\* The bound session is live and listens on port p.
BoundLive(p) ==
    \E f \in Files : IsBound(f) /\ Has(dir[f], "port") /\ dir[f].port = p

Started(p, j) ==
    /\ last.op = "submit" /\ ~last.raised
    /\ last.result = [kind |-> "started", job_id |-> j]
    /\ last.url.port = p

PolledCompleted(j) ==
    /\ last.op = "poll" /\ last.arg = j
    /\ Completed(last.result) /\ TerminalReply(last.outcome)

\* C16: once a submit has returned id PolledJob from the session on port
\* 8787, the repeated polls of that id come to return a completed outcome
\* with the job's payload, unless the session ends or the binding leaves it.
C16_PollEventuallyCompletes ==
    Started(HomePort(1), PolledJob)
        ~> (PolledCompleted(PolledJob) \/ ~BoundLive(HomePort(1)))

\* ------------------------------------------------- claims: discovery
\* A file that is no valid descriptor: not JSON, no JSON object, or an
\* object without a pid.
Unusable(c) == c # Absent /\ (c.json # "object" \/ ~Has(c, "pid"))

\* C17: discover() deletes every file that is no valid descriptor and
\* leaves it out of the result, and still returns every valid descriptor
\* whose process it may signal.
C17_CorruptDeleted ==
    last.op = "discover" =>
        \A f \in Files :
            /\ Unusable(last.pre[f]) =>
                  /\ dir[f] = Absent
                  /\ last.pre[f].json = "object" => Parse(last.pre[f]) \notin Range(last.sessions)
            /\ (Complete(last.pre[f]) /\ Kill(last.pre[f].pid, last.preProcs) = "ok")
                  => Parse(last.pre[f]) \in Range(last.sessions)

\* C18: is_alive(pid) is true when the probe is refused with permission
\* denied and false only on "no such process"; discover() keeps the
\* descriptor of a live process of another user.
C18_PermissionDeniedAlive ==
    /\ \A q \in Pids :
          /\ Kill(q, procs) = "EPERM" => PidAlive(q, procs)
          /\ ~PidAlive(q, procs) => Kill(q, procs) = "ESRCH"
    /\ last.op = "discover" =>
          \A f \in Files :
              (Complete(last.pre[f]) /\ Kill(last.pre[f].pid, last.preProcs) = "EPERM")
                  => (dir[f] = last.pre[f] /\ Parse(last.pre[f]) \in Range(last.sessions))

\* C19: a discover() call during which sessions and other writers create
\* and remove files does not raise, removes no live descriptor that nobody
\* changed, and returns every live descriptor that nobody changed.
C19_RaceTolerant ==
    last.op = "scan" =>
        /\ ~last.raised
        /\ last.scanned.fault = "none"
        /\ \A f \in Files \ last.scanned.touched :
              (dir[f] # Absent /\ Keeps(dir[f], procs))
                  => Parse(dir[f]) \in Range(last.sessions)

\* The call went on after its os.remove met a file that was gone, and
\* returned a session.
C19_Witness ==
    /\ last.op = "scan" /\ ~last.raised
    /\ last.scanned.missed
    /\ last.scanned.touched # {}
    /\ last.sessions # <<>>

FileOf(q) == CHOOSE f \in Files : PidOf(f) = q

\* C20: with the discover() calls of two bridges interleaved, each call
\* returns without raising, every descriptor it returns is of a process
\* that is alive unless it changed during the call, and resolve() on the
\* returned list gives, for any binding, the address of a returned session
\* (the fallback for an empty list) without raising.
C20_ConcurrentBridges ==
    last.op = "scan" =>
        /\ ~last.raised
        /\ \A i \in Indices(last.sessions) :
              \/ FileOf(last.sessions[i].pid) \in last.scanned.touched
              \/ Kill(last.sessions[i].pid, procs) = "ok"
        /\ \A tgt \in Names \cup {None} :
              LET r == Route(last.sessions, tgt) IN
              /\ ~r.raised
              /\ IF last.sessions = <<>> THEN r.url = R_ADDIN_URL
                 ELSE \E i \in Indices(last.sessions) : r.url = Url(last.sessions[i].port)

\* Both bridges went to delete the same dead descriptor; the one that came
\* second returned normally, after the other.
C20_Witness ==
    /\ last.op = "scan" /\ last.arg = "b2" /\ ~last.raised
    /\ last.scanned.missed
    /\ scan["b1"].pc = "idle"

\* ------------------------------------------- claims: discovery, again
\* C21: of two discover() calls with nothing in between, the second returns
\* the same descriptors as the first and deletes nothing.
C21_DiscoverIdempotent ==
    (last.op = "discover" /\ last.prevOp = "discover") =>
        /\ Range(last.sessions) = Range(last.prevSessions)
        /\ dir = last.pre

\* Two calls in a row with two live sessions on file.
C21_Witness ==
    /\ last.op = "discover" /\ last.prevOp = "discover"
    /\ Len(last.sessions) = 2
    /\ last.prevSessions = last.sessions
    /\ dir = last.pre

\* C22: with no discovery directory, discover() returns the empty list
\* without raising and creates nothing, and resolve() returns the fallback
\* address.
C22_NoDirectory ==
    (last.op \in {"discover", "resolve"} /\ ~last.isdir) =>
        /\ last.sessions = <<>>
        /\ ~last.raised
        /\ ~isdir /\ dir = EmptyDir
        /\ last.op = "resolve" => last.url = R_ADDIN_URL

\* resolve() met no directory while the bridge carried a binding.
C22_Witness ==
    /\ last.op = "resolve" /\ ~last.isdir
    /\ last.preTarget # None
    /\ last.url = R_ADDIN_URL
    /\ ~isdir

\* ------------------------------------------------ claims: the binding
\* C23: while the session the binding names is in discovery, resolve()
\* returns that session's address and keeps the binding, whatever other
\* sessions have appeared: one named "default", one with a lower port.
C23_StickyUnderAdditions ==
    (/\ last.op = "resolve"
     /\ last.preTarget # None /\ Found(last.sessions, last.preTarget)
     /\ AllComplete(last.sessions))
    => /\ ~last.raised
       /\ target_session = last.preTarget
       /\ \A i \in Indices(last.sessions) :
             last.sessions[i].session_name = last.preTarget
                 => last.url = Url(last.sessions[i].port)

\* Since the preceding resolve() a session named "default" with a lower
\* port has started; the address is still that of the bound session.
C23_Witness ==
    /\ last.op = "resolve" /\ ~last.raised
    /\ last.h.resolved /\ last.h.since = "added"
    /\ last.preTarget \notin {None, "default"}
    /\ last.url = last.h.url
    /\ \E i \in Indices(last.sessions) :
          /\ last.sessions[i].session_name = "default"
          /\ last.sessions[i].port < last.url.port

\* C24: after a resolve() whose discovery does not hold the bound name, be
\* it empty or not, the binding no longer names that session.
C24_BindingCleared ==
    (/\ last.op = "resolve" /\ ~last.raised
     /\ last.preTarget # None /\ ~Found(last.sessions, last.preTarget))
    => target_session # last.preTarget

\* C25: whenever resolve() returns an address other than the fallback, the
\* binding on return is the session_name of a descriptor of that call's
\* discovery, and the address is the one of that descriptor's port.
C25_BindingMatchesAddress ==
    (last.op = "resolve" /\ ~last.raised /\ last.url # R_ADDIN_URL) =>
        \E i \in Indices(last.sessions) :
            /\ Has(last.sessions[i], "session_name")
            /\ last.sessions[i].session_name = target_session
            /\ Has(last.sessions[i], "port")
            /\ last.url = Url(last.sessions[i].port)

\* An auto-pick among two sessions that bound the one off the fallback port.
C25_Witness ==
    /\ last.op = "resolve" /\ ~last.raised
    /\ last.preTarget = None
    /\ Len(last.sessions) = 2
    /\ last.url = Url(9000)
    /\ target_session = "default"

\* ------------------------------------------------ claims: interleavings
\* A step of a discover_sessions() call that is done with a file.
FileDone == \E b \in Bridges : scan'[b].todo # scan[b].todo

\* C26: whatever sessions write or replace meanwhile, no step of a bridge's
\* discover() deletes a file that, at that step, holds the descriptor of a
\* session whose process is alive.
C26_NeverDeletesLive ==
    [][\A f \in Files : (Keeps(dir[f], procs) /\ dir'[f] = Absent) => ~FileDone]_vars

\* C27: within one tool call the request of the addin check and the command
\* that follows go to the same address, whatever happens to the sessions in
\* between (for get_async_result: during the sleep).
C27_ProbeAndCommandAgree ==
    (last.op \in {"submit", "poll"} /\ last.sent # <<>>) =>
        last.sent[1].url = last.probe

\* ------------------------------------------------- claims: jobs, again
\* C28: the status request of poll(j) goes to the address resolve() yields
\* at poll time (the bound session if discovered, else the pick, the
\* fallback for an empty discovery), wherever j was submitted, and the
\* bridge holds nothing about the job.
C28_PollFollowsBinding ==
    (last.op = "poll" /\ last.sent # <<>>) =>
        /\ polling = Idle
        /\ IF last.sessions = <<>> THEN last.sent[1].url = R_ADDIN_URL
           ELSE IF Found(last.sessions, last.preTarget)
           THEN \A i \in Indices(last.sessions) :
                    last.sessions[i].session_name = last.preTarget
                        => last.sent[1].url = Url(last.sessions[i].port)
           ELSE last.sent[1].url = Url(last.sessions[PickIndex(last.sessions)].port)

\* The job runs on a live session; the binding has moved to another one,
\* which is asked and does not know the id.
C28_Witness ==
    /\ last.op = "poll" /\ last.arg \in JobIds
    /\ last.outcome.kind = "response"
    /\ last.result = [kind |-> "not_found", job_id |-> last.arg]
    /\ \E p \in Ports \ {last.url.port} :
          jobs[p][last.arg] = "running" /\ Listener(dir, procs, p)

\* C29: a submit that reports a failure has started no job on the target,
\* also when its exchange timed out.
C29_FailureMeansNoJob ==
    (last.op = "submit" /\ last.sent # <<>> /\ last.result.kind = "start_error") =>
        jobs = last.preJobs

\* ------------------------------------------- claims: the introduction
ToolOps == {"execute_r", "list", "connect", "submit", "poll"}

\* The call went past the availability check (which list_sessions and
\* connect_session skip) and returned.
PastCheck ==
    /\ last.op \in ToolOps /\ ~last.raised
    /\ last.op \in {"list", "connect"} \/ last.up

\* C30: the result of the first tool call that goes past the availability
\* check holds the introduction, whichever tool it is and whether it
\* succeeds; the result of no later call holds it.
C30_IntroducedOnce ==
    /\ (PastCheck /\ ~last.introduced) => last.intro
    /\ (last.op \in ToolOps /\ last.introduced) => ~last.intro

====
